---- MODULE Spec2Model ----
(***************************************************************************)
(* Model of Final_Model_Files/SuperCreateModel.py: the two training        *)
(* lifecycles TorchModel (gradient loop over epochs) and SklearnModel      *)
(* (single fit/predict), their evaluation pass (thresholding + confusion   *)
(* matrix + accuracy) and their checkpoint persistence.                    *)
(*                                                                         *)
(* Python attributes that may be absent are tracked in `assigned` (the set *)
(* of attribute names that exist on the instance).  A matrix is a sequence *)
(* of rows; the 0-based numpy index cm[i, j] is Cell(cm, i, j).            *)
(* Probabilities and thresholds are in thousandths (500 is 0.5).           *)
(***************************************************************************)
EXTENDS Integers, Sequences, FiniteSets, TLC

\* ---------------------------------------------------------------- bounds
MaxSamples == 2
MaxEpochs == 2
MaxClock == 1
MaxVec == 3

\* ------------------------------------------------------- input domains
Labels == {0, 1}
Thresholds == {500, 750}
Probs == {0, 500, 1000}
Logits == {-2, 0, 2}
StudyProbs == {0, 250, 500, 750, 1000}
StudyLogits == {-2, -1, 0, 1, 2}
Subsamples == {1, 2}
TrainFile == "train.csv"
TestFile == "test.csv"
None == -1
NoScalar == [fitOn |-> "none", sample |-> 0]

VARIABLES
    kind,          \* which lifecycle class the instance is
    pc,            \* position of the driver
    err,           \* exception that ended the run ("none" while running)
    assigned,      \* attribute names that exist on the instance
    model,         \* None, or the version of the model's parameters
    epochs,        \* self.epochs
    t,             \* loop variable of TorchModel.commenceTraining
    threshold,     \* self.threshold
    supervised,    \* self.supervised
    scalar,        \* self.scalar
    train_dataset, \* self.train_dataset
    test_dataset,  \* self.test_dataset
    y_pred,        \* self.y_pred
    cm,            \* self.cm
    accuracy,      \* self.accuracy as numerator / denominator
    cms,           \* self.cms
    clock,         \* last second read by time.strftime
    file_name,     \* self.file_name
    files,         \* checkpoint files on disk: name -> content
    writes,        \* name -> number of times the file was written
    initResult,    \* what the last initModel call returned
    plotCalls,     \* arguments of the plotCM calls
    fits,          \* scalers fitted by DatasetReader, in order
    log,           \* completed steps <<event, epoch>>
    trainedOn,     \* per training pass: epoch in which its dataset was built
    evalLog,       \* per evaluation attempt: [n, cm]
    probs, thr1, thr2, pos1, pos2   \* threshold study (SpecThreshold)

lifecycle == <<kind, assigned, model, epochs, threshold, supervised, scalar,
               train_dataset, test_dataset, y_pred, cm, accuracy, cms,
               file_name>>
study == <<probs, thr1, thr2, pos1, pos2>>
vars == <<kind, pc, err, assigned, model, epochs, t, threshold, supervised,
          scalar, train_dataset, test_dataset, y_pred, cm, accuracy, cms,
          clock, file_name, files, writes, initResult, plotCalls, fits, log,
          trainedOn, evalLog, probs, thr1, thr2, pos1, pos2>>

\* ------------------------------------------------------------- helpers
SeqsUpTo(S, n) == UNION {[1..k -> S] : k \in 0..n}

RECURSIVE SumSeq(_)
SumSeq(s) == IF s = <<>> THEN 0 ELSE Head(s) + SumSeq(Tail(s))

Count(l, ev) == Cardinality({i \in DOMAIN l : l[i][1] = ev})

\* sigmoid(x) in thousandths, rounded, for the logits of the model
Sigmoid(x) ==
    CASE x = -2 -> 119
      [] x = -1 -> 269
      [] x = 0 -> 500
      [] x = 1 -> 731
      [] x = 2 -> 881

\* (y_prob >= self.threshold).astype(int)
ThresholdReversed(p, th) == [i \in DOMAIN p |-> IF p[i] <= th THEN 1 ELSE 0]
Threshold(p, th) == [i \in DOMAIN p |-> IF p[i] >= th THEN 1 ELSE 0]

\* (torch.sigmoid(self.outputs) >= self.threshold).float(), all batches
TorchPredict(outputs, th) ==
    Threshold([i \in DOMAIN outputs |-> Sigmoid(outputs[i])], th)

\* np.where(y_raw == 1, 1, 0)
WhereOne(y_raw) == [i \in DOMAIN y_raw |-> IF y_raw[i] = 1 THEN 1 ELSE 0]

\* sklearn.metrics.confusion_matrix(y_true, y_pred) with labels=None: the
\* labels are the sorted values occurring in y_true or y_pred, and the
\* matrix has one row and one column per label.
UniqueLabels(yt, yp) ==
    LET present == {yt[i] : i \in DOMAIN yt} \cup {yp[i] : i \in DOMAIN yp}
    IN  IF present = {} THEN <<>>
        ELSE IF present = {0} THEN <<0>>
        ELSE IF present = {1} THEN <<1>>
        ELSE <<0, 1>>

confusion_matrix(yt, yp) ==
    LET labels == UniqueLabels(yt, yp)
    IN  [i \in DOMAIN labels |->
          [j \in DOMAIN labels |->
            Cardinality({k \in DOMAIN yt :
                           yt[k] = labels[i] /\ yp[k] = labels[j]})]]

InBounds(m, i, j) == i + 1 <= Len(m) /\ j + 1 <= Len(m)
Cell(m, i, j) == m[i + 1][j + 1]
CmSum(m) == SumSeq([i \in DOMAIN m |-> SumSeq(m[i])])

\* DatasetReader(csv_file, undersample, scalar): fits a scaler on its own
\* data when none is passed, otherwise keeps the one it is given.
DatasetReader(csv_file, undersample, sc, target, sample, builtIn) ==
    [file |-> csv_file,
     target |-> target,
     undersample |-> undersample,
     sample |-> IF undersample THEN sample ELSE 0,
     scalar |-> IF sc = NoScalar
                THEN [fitOn |-> csv_file,
                      sample |-> IF undersample THEN sample ELSE 0]
                ELSE sc,
     fitted |-> (sc = NoScalar),
     builtIn |-> builtIn]

\* the scaler a DatasetReader fitted itself, if it did
Fitted(d) == IF d.fitted THEN <<d.scalar>> ELSE <<>>
getScalar(d) == d.scalar

\* ----------------------------------------------------- construction
TrainTarget == <<0, 1>>

\* DatasetReader(csv_file = self.train_file, undersample=True)
TrainDatasetCtor(s) == DatasetReader(TrainFile, TRUE, NoScalar, TrainTarget, s, 0)

\* DatasetReader(csv_file = test_file, scalar = self.scalar)
TestDatasetFresh(sc, target) ==
    DatasetReader(TestFile, FALSE, NoScalar, target, 0, 0)
TestDatasetCtor(sc, target) ==
    DatasetReader(TestFile, FALSE, sc, target, 0, 0)

\* scalers fitted by the constructor, in order
CtorFits(trainDs, testDs) == Fitted(trainDs) \o Fitted(testDs)

StudyIdle ==
    /\ probs = <<>>
    /\ thr1 = 0
    /\ thr2 = 0
    /\ pos1 = {}
    /\ pos2 = {}

\* the fields both constructors set, and the history variables
Constructed(target, th, s) ==
    /\ train_dataset = TrainDatasetCtor(s)
    /\ scalar = getScalar(train_dataset)
    /\ test_dataset = TestDatasetCtor(scalar, target)
    /\ fits = CtorFits(train_dataset, test_dataset)
    /\ threshold = th
    /\ err = "none"
    /\ epochs = 0
    /\ t = 0
    /\ y_pred = <<>>
    /\ cm = <<>>
    /\ accuracy = [num |-> 0, den |-> 0]
    /\ cms = <<>>
    /\ clock = 0
    /\ file_name = <<"", 0, "">>
    /\ files = <<>>
    /\ writes = <<>>
    /\ initResult = "none"
    /\ plotCalls = <<>>
    /\ log = <<>>
    /\ trainedOn = <<>>
    /\ evalLog = <<>>

\* TorchModel.__init__
TorchModelInit ==
    /\ kind = "torch"
    /\ pc = "t_new"
    /\ assigned = {}
    /\ model = None
    /\ supervised = TRUE
    /\ \E target \in SeqsUpTo(Labels, MaxSamples), th \in Thresholds,
          s \in Subsamples : Constructed(target, th, s)

\* SklearnModel.__init__
SklearnModelInit ==
    /\ kind = "sklearn"
    /\ pc = "s_new"
    /\ assigned = {"model", "titles", "supervised"}
    /\ model = None
    /\ supervised = TRUE
    /\ \E target \in SeqsUpTo(Labels, MaxSamples), th \in Thresholds,
          s \in Subsamples : Constructed(target, th, s)

Init == (TorchModelInit \/ SklearnModelInit) /\ StudyIdle

\* ------------------------------------------------ shared step pieces
Logged(ev, k) == log' = Append(log, <<ev, k>>)

Raise(e) ==
    /\ err' = e
    /\ pc' = "failed"

\* self.cm = confusion_matrix(target, self.y_pred)
\* self.accuracy = (self.cm[0, 0] + self.cm[1, 1]) / self.cm.sum()
Evaluate(pred, k, next) ==
    LET m == confusion_matrix(test_dataset.target, pred)
    IN  /\ y_pred' = pred
        /\ cm' = m
        /\ evalLog' = Append(evalLog, [n |-> Len(test_dataset.target), cm |-> m])
        /\ IF InBounds(m, 0, 0) /\ InBounds(m, 1, 1)
           THEN /\ accuracy' = [num |-> Cell(m, 0, 0) + Cell(m, 1, 1),
                                den |-> CmSum(m)]
                /\ assigned' = assigned \cup {"y_pred", "cm", "accuracy"}
                /\ Logged("test", k)
                /\ pc' = next
                /\ err' = err
           ELSE /\ accuracy' = accuracy
                /\ assigned' = assigned \cup {"y_pred", "cm"}
                /\ log' = log
                /\ Raise("IndexError")

\* time.strftime("%Y%m%d_%H%M%S"): the clock has one-second resolution and
\* never runs backwards
FileName(now, ext) == <<"Model", now, ext>>

Persist(tag, ext, k, next) ==
    \E now \in clock..MaxClock :
        LET name == FileName(now, ext)
            to_save == [model |-> model, threshold |-> threshold,
                        model_type |-> tag, scalar |-> scalar]
        IN  /\ clock' = now
            /\ file_name' = name
            /\ assigned' = assigned \cup {"timestamp", "file_name"}
            /\ files' = [f \in DOMAIN files \cup {name} |->
                           IF f = name THEN to_save ELSE files[f]]
            /\ writes' = [f \in DOMAIN writes \cup {name} |->
                            IF f = name
                            THEN (IF f \in DOMAIN writes THEN writes[f] ELSE 0) + 1
                            ELSE writes[f]]
            /\ Logged("save", k)
            /\ pc' = next

\* ------------------------------------------------------- TorchModel
\* the subclass constructor of the example: titles, model_type and the
\* subclass's initModel (model, loss_fn, optimizer, epochs, device)
TorchSubclassInit ==
    /\ pc = "t_new"
    /\ \E n \in 0..MaxEpochs : epochs' = n
    /\ model' = 0
    /\ assigned' = assigned \cup {"titles", "model_type", "model", "loss_fn",
                                  "optimizer", "epochs", "device"}
    /\ initResult' = "None"
    /\ pc' = "t_ready"
    /\ UNCHANGED <<kind, err, t, threshold, supervised, scalar, train_dataset,
                   test_dataset, y_pred, cm, accuracy, cms, clock, file_name,
                   files, writes, plotCalls, fits, log, trainedOn, evalLog,
                   study>>

\* TorchModel.initModel: return NotImplemented
TorchInitModel ==
    /\ pc = "t_new"
    /\ initResult' = "NotImplemented"
    /\ pc' = "t_ready"
    /\ UNCHANGED <<kind, err, assigned, model, epochs, t, threshold,
                   supervised, scalar, train_dataset, test_dataset, y_pred,
                   cm, accuracy, cms, clock, file_name, files, writes,
                   plotCalls, fits, log, trainedOn, evalLog, study>>

\* TorchModel.commenceTraining, up to the first iteration of the loop
TorchCommenceTraining ==
    /\ pc = "t_ready"
    /\ cms' = <<>>
    /\ assigned' = assigned \cup {"cms"}
    /\ t' = 0
    /\ IF "epochs" \notin assigned
       THEN Raise("AttributeError")
       ELSE /\ pc' = IF 0 < epochs THEN "t_train" ELSE "t_plot"
            /\ err' = err
    /\ UNCHANGED <<kind, model, epochs, threshold, supervised, scalar,
                   train_dataset, test_dataset, y_pred, cm, accuracy, clock,
                   file_name, files, writes, initResult, plotCalls, fits, log,
                   trainedOn, evalLog, study>>

\* TorchModel.train: one pass over self.train_loader; a batch may raise
\* after earlier batches have updated the parameters
TorchTrainSwallow ==
    /\ pc = "t_train"
    /\ \/ /\ model' = model + 1
          /\ trainedOn' = Append(trainedOn, train_dataset.builtIn)
          /\ Logged("train", t + 1)
          /\ err' = err
       \/ /\ model' \in {model, model + 1}
          /\ trainedOn' = trainedOn
          /\ log' = log
          /\ err' = "TrainError"
    /\ pc' = "t_resample"
    /\ assigned' = assigned \cup {"running_loss"}
    /\ UNCHANGED <<kind, epochs, t, threshold, supervised, scalar,
                   train_dataset, test_dataset, y_pred, cm, accuracy, cms,
                   clock, file_name, files, writes, initResult, plotCalls,
                   fits, evalLog, study>>

TorchTrain ==
    /\ pc = "t_train"
    /\ \/ /\ model' = model + 1
          /\ trainedOn' = Append(trainedOn, train_dataset.builtIn)
          /\ Logged("train", t + 1)
          /\ assigned' = assigned \cup {"running_loss", "train_loss"}
          /\ pc' = "t_resample"
          /\ err' = err
       \/ /\ model' \in {model, model + 1}
          /\ trainedOn' = trainedOn
          /\ log' = log
          /\ assigned' = assigned \cup {"running_loss"}
          /\ Raise("TrainError")
    /\ UNCHANGED <<kind, epochs, t, threshold, supervised, scalar,
                   train_dataset, test_dataset, y_pred, cm, accuracy, cms,
                   clock, file_name, files, writes, initResult, plotCalls,
                   fits, evalLog, study>>

\* self.train_dataset = DatasetReader(csv_file = self.train_file,
\*                                    undersample=True, scalar = self.scalar)
TrainDatasetResample(sc, s, k) ==
    DatasetReader(TrainFile, TRUE, sc, TrainTarget, s, k)

TorchResampleSkipped ==
    /\ pc = "t_resample"
    /\ Logged("resample", t + 1)
    /\ pc' = "t_test"
    /\ UNCHANGED <<kind, err, assigned, model, epochs, t, threshold,
                   supervised, scalar, train_dataset, test_dataset, y_pred, cm,
                   accuracy, cms, clock, file_name, files, writes, initResult,
                   plotCalls, fits, trainedOn, evalLog, study>>

TorchResample ==
    /\ pc = "t_resample"
    /\ \E s \in Subsamples :
          /\ train_dataset' = TrainDatasetResample(scalar, s, t + 1)
          /\ fits' = fits \o Fitted(train_dataset')
    /\ Logged("resample", t + 1)
    /\ pc' = "t_test"
    /\ UNCHANGED <<kind, err, assigned, model, epochs, t, threshold,
                   supervised, scalar, test_dataset, y_pred, cm, accuracy,
                   cms, clock, file_name, files, writes, initResult,
                   plotCalls, trainedOn, evalLog, study>>

\* TorchModel.test
TorchTest ==
    /\ pc = "t_test"
    /\ \E outputs \in [DOMAIN test_dataset.target -> Logits] :
          Evaluate(TorchPredict(outputs, threshold), t + 1, "t_save")
    /\ UNCHANGED <<kind, model, epochs, t, threshold, supervised, scalar,
                   train_dataset, test_dataset, cms, clock, file_name, files,
                   writes, initResult, plotCalls, fits, trainedOn, study>>

\* TorchModel.saveModel
TorchSaveModel ==
    /\ pc = "t_save"
    /\ Persist("PyTorch", "pth", t + 1, "t_append")
    /\ UNCHANGED <<kind, err, model, epochs, t, threshold, supervised, scalar,
                   train_dataset, test_dataset, y_pred, cm, accuracy, cms,
                   initResult, plotCalls, fits, trainedOn, evalLog, study>>

\* self.cms.append(self.cm), and the loop's next iteration
TorchAppendEarlyStop ==
    /\ pc = "t_append"
    /\ cms' = Append(cms, cm)
    /\ Logged("record", t + 1)
    /\ t' = t + 1
    /\ pc' = "t_plot"
    /\ UNCHANGED <<kind, err, assigned, model, epochs, threshold, supervised,
                   scalar, train_dataset, test_dataset, y_pred, cm, accuracy,
                   clock, file_name, files, writes, initResult, plotCalls,
                   fits, trainedOn, evalLog, study>>

TorchAppend ==
    /\ pc = "t_append"
    /\ cms' = Append(cms, cm)
    /\ Logged("record", t + 1)
    /\ t' = t + 1
    /\ pc' = IF t + 1 < epochs THEN "t_train" ELSE "t_plot"
    /\ UNCHANGED <<kind, err, assigned, model, epochs, threshold, supervised,
                   scalar, train_dataset, test_dataset, y_pred, cm, accuracy,
                   clock, file_name, files, writes, initResult, plotCalls,
                   fits, trainedOn, evalLog, study>>

\* plotCM(self.cms, self.titles)
TorchPlot ==
    /\ pc = "t_plot"
    /\ plotCalls' = Append(plotCalls, cms)
    /\ pc' = "done"
    /\ UNCHANGED <<kind, err, assigned, model, epochs, t, threshold,
                   supervised, scalar, train_dataset, test_dataset, y_pred,
                   cm, accuracy, cms, clock, file_name, files, writes,
                   initResult, fits, log, trainedOn, evalLog, study>>

\* ----------------------------------------------------- SklearnModel
\* the subclass constructor (RandomForestModel in main): model_type, model
\* and titles; a subclass may also override self.supervised
SklearnSubclassInit ==
    /\ pc = "s_new"
    /\ model' = 0
    /\ \E b \in BOOLEAN : supervised' = b
    /\ assigned' = assigned \cup {"model_type"}
    /\ pc' = "s_ready"
    /\ UNCHANGED <<kind, err, epochs, t, threshold, scalar, train_dataset,
                   test_dataset, y_pred, cm, accuracy, cms, clock, file_name,
                   files, writes, initResult, plotCalls, fits, log, trainedOn,
                   evalLog, study>>

\* SklearnModel.train, called first by commenceTraining; fit may raise
SklearnTrainUnguarded ==
    /\ pc \in {"s_new", "s_ready"}
    /\ \/ /\ model' = model + 1
          /\ trainedOn' = Append(trainedOn, train_dataset.builtIn)
          /\ Logged("train", 1)
          /\ pc' = "s_test"
          /\ err' = err
       \/ /\ model' = model
          /\ trainedOn' = trainedOn
          /\ log' = log
          /\ Raise("FitError")
    /\ UNCHANGED <<kind, assigned, epochs, t, threshold, supervised, scalar,
                   train_dataset, test_dataset, y_pred, cm, accuracy, cms,
                   clock, file_name, files, writes, initResult, plotCalls,
                   fits, evalLog, study>>

SklearnTrain ==
    /\ pc \in {"s_new", "s_ready"}
    /\ IF model = None
       THEN /\ Raise("ValueError")
            /\ UNCHANGED <<model, trainedOn, log>>
       ELSE \/ /\ model' = model + 1
               /\ trainedOn' = Append(trainedOn, train_dataset.builtIn)
               /\ Logged("train", 1)
               /\ pc' = "s_test"
               /\ err' = err
            \/ /\ model' = model
               /\ trainedOn' = trainedOn
               /\ log' = log
               /\ Raise("FitError")
    /\ UNCHANGED <<kind, assigned, epochs, t, threshold, supervised, scalar,
                   train_dataset, test_dataset, y_pred, cm, accuracy, cms,
                   clock, file_name, files, writes, initResult, plotCalls,
                   fits, evalLog, study>>

\* SklearnModel.test
SklearnTest ==
    /\ pc = "s_test"
    /\ IF supervised
       THEN \E y_prob \in [DOMAIN test_dataset.target -> Probs] :
               Evaluate(Threshold(y_prob, threshold), 1, "s_plot")
       ELSE \E y_raw \in [DOMAIN test_dataset.target -> {-1, 1}] :
               Evaluate(WhereOne(y_raw), 1, "s_plot")
    /\ UNCHANGED <<kind, model, epochs, t, threshold, supervised, scalar,
                   train_dataset, test_dataset, cms, clock, file_name, files,
                   writes, initResult, plotCalls, fits, trainedOn, study>>

\* plotCM([self.cm], self.titles), the end of commenceTraining
SklearnPlot ==
    /\ pc = "s_plot"
    /\ plotCalls' = Append(plotCalls, <<cm>>)
    /\ pc' = "s_save"
    /\ UNCHANGED <<kind, err, assigned, model, epochs, t, threshold,
                   supervised, scalar, train_dataset, test_dataset, y_pred,
                   cm, accuracy, cms, clock, file_name, files, writes,
                   initResult, fits, log, trainedOn, evalLog, study>>

\* SklearnModel.saveModel, called by main after commenceTraining
SklearnSaveModel ==
    /\ pc = "s_save"
    /\ Persist("RandomForest", "joblib", 1, "done")
    /\ UNCHANGED <<kind, err, model, epochs, t, threshold, supervised, scalar,
                   train_dataset, test_dataset, y_pred, cm, accuracy, cms,
                   initResult, plotCalls, fits, trainedOn, evalLog, study>>

Next ==
    \/ TorchSubclassInit
    \/ TorchInitModel
    \/ TorchCommenceTraining
    \/ TorchTrain
    \/ TorchResample
    \/ TorchTest
    \/ TorchSaveModel
    \/ TorchAppend
    \/ TorchPlot
    \/ SklearnSubclassInit
    \/ SklearnTrain
    \/ SklearnTest
    \/ SklearnPlot
    \/ SklearnSaveModel

Spec == Init /\ [][Next]_vars

\* ------------------------------------------------- threshold study
\* The two evaluation passes applied to one fixed vector of model outputs
\* (positive-class probabilities for SklearnModel, raw scores for
\* TorchModel) at two thresholds.
Positives(pred) == {i \in DOMAIN pred : pred[i] = 1}

Predict(k, v, th) ==
    IF k = "torch" THEN TorchPredict(v, th) ELSE Threshold(v, th)

InitThreshold ==
    /\ \/ TorchModelInit /\ probs \in SeqsUpTo(StudyLogits, MaxVec)
       \/ SklearnModelInit /\ probs \in SeqsUpTo(StudyProbs, MaxVec)
    /\ threshold = 500
    /\ train_dataset.sample = 1
    /\ test_dataset.target = <<>>
    /\ thr1 \in StudyProbs
    /\ thr2 \in StudyProbs
    /\ pos1 = {}
    /\ pos2 = {}

PredictFirst ==
    /\ pc \in {"t_new", "s_new"}
    /\ pos1' = Positives(Predict(kind, probs, thr1))
    /\ pc' = "first"
    /\ UNCHANGED <<kind, err, assigned, model, epochs, t, threshold,
                   supervised, scalar, train_dataset, test_dataset, y_pred,
                   cm, accuracy, cms, clock, file_name, files, writes,
                   initResult, plotCalls, fits, log, trainedOn, evalLog,
                   probs, thr1, thr2, pos2>>

PredictSecond ==
    /\ pc = "first"
    /\ pos2' = Positives(Predict(kind, probs, thr2))
    /\ pc' = "second"
    /\ UNCHANGED <<kind, err, assigned, model, epochs, t, threshold,
                   supervised, scalar, train_dataset, test_dataset, y_pred,
                   cm, accuracy, cms, clock, file_name, files, writes,
                   initResult, plotCalls, fits, log, trainedOn, evalLog,
                   probs, thr1, thr2, pos1>>

NextThreshold == PredictFirst \/ PredictSecond

SpecThreshold == InitThreshold /\ [][NextThreshold]_vars

\* ------------------------------------------------------------ claims
IsPrefix(a, b) == Len(a) <= Len(b) /\ \A i \in DOMAIN a : a[i] = b[i]

\* the events of epoch k, in the order they happened
RECURSIVE EventsOf(_, _)
EventsOf(l, k) ==
    IF l = <<>> THEN <<>>
    ELSE IF Head(l)[2] = k THEN <<Head(l)[1]>> \o EventsOf(Tail(l), k)
    ELSE EventsOf(Tail(l), k)

IsTwoByTwo(m) == Len(m) = 2 /\ \A i \in DOMAIN m : Len(m[i]) = 2

\* C1: SklearnModel.train() on an instance whose model is None raises
\* ValueError and leaves every field of the lifecycle as it was, and such an
\* instance never reaches test() or the plotting call.
UndefinedModelGuard ==
    /\ [][(kind = "sklearn" /\ model = None /\ pc = "s_new"
             /\ pc' \notin {"s_new", "s_ready"})
          => (err' = "ValueError" /\ pc' = "failed"
                /\ lifecycle' = lifecycle)]_vars
    /\ []((kind = "sklearn" /\ model = None)
          => (evalLog = <<>> /\ plotCalls = <<>> /\ Count(log, "test") = 0
                /\ Count(log, "train") = 0))

UndefinedModelRaised ==
    kind = "sklearn" /\ model = None /\ pc = "failed" /\ err = "ValueError"

\* C2: every evaluation pass over test samples, single-class ones included,
\* produces a 2x2 confusion matrix whose four cells sum to the number of
\* evaluated test samples.
ConfusionMatrixIsTwoByTwoAndSums ==
    \A i \in DOMAIN evalLog :
        evalLog[i].n > 0
            => /\ IsTwoByTwo(evalLog[i].cm)
               /\ CmSum(evalLog[i].cm) = evalLog[i].n

\* C3: the scaler fitted on the training set at construction is the only
\* scaler ever fitted; the test set, every re-constructed training set and
\* every checkpoint carry it, and the scalar field is never reassigned.
SingleScaler ==
    /\ [](/\ fits = <<scalar>>
          /\ scalar.fitOn = TrainFile
          /\ test_dataset.scalar = scalar
          /\ ~test_dataset.fitted
          /\ train_dataset.scalar = scalar
          /\ \A f \in DOMAIN files : files[f].scalar = scalar)
    /\ [][scalar' = scalar]_vars

SingleScalerWitness ==
    /\ kind = "torch"
    /\ pc = "done"
    /\ epochs >= 2
    /\ train_dataset.builtIn = epochs
    /\ DOMAIN files # {}

\* C4: no two saveModel calls write to the same file name, so no written
\* checkpoint is overwritten, and a run that has persisted leaves exactly
\* one checkpoint file.
CheckpointNamesNeverCollide ==
    /\ \A f \in DOMAIN writes : writes[f] <= 1
    /\ (pc = "done" /\ Count(log, "save") > 0)
          => Cardinality(DOMAIN files) = 1

\* C5: the base TorchModel.initModel does not return normally: once it has
\* been called the run has ended with a "not implemented" error.
BaseInitModelRaises ==
    initResult = "NotImplemented"
        => (pc = "failed" /\ err = "NotImplementedError")

\* C6: for a fixed vector of model outputs and thresholds thr1 <= thr2, the
\* samples predicted positive at thr2 are a subset of those predicted
\* positive at thr1, so raising the threshold never adds positives.
ThresholdMonotone ==
    (pc = "second" /\ thr1 <= thr2)
        => (pos2 \subseteq pos1 /\ Cardinality(pos2) <= Cardinality(pos1))

ThresholdMonotoneWitness ==
    /\ pc = "second"
    /\ thr1 < thr2
    /\ pos2 # {}
    /\ pos2 # pos1

\* C7: after every evaluation pass the accuracy field is defined, equals
\* (cm[0,0] + cm[1,1]) / total with total > 0, and lies between 0 and 1.
AccuracyDefinedAndBounded ==
    evalLog # <<>>
        => /\ "accuracy" \in assigned
           /\ IsTwoByTwo(cm)
           /\ accuracy.den = CmSum(cm)
           /\ accuracy.den > 0
           /\ accuracy.num = Cell(cm, 0, 0) + Cell(cm, 1, 1)
           /\ 0 <= accuracy.num
           /\ accuracy.num <= accuracy.den

\* C8: a TorchModel.commenceTraining run with epochs = N in which no step
\* fails ends after exactly N iterations: N training passes, N evaluations,
\* N saveModel calls, cms holding the N matrices in evaluation order, and a
\* single plotting call, made after the last epoch with that whole list.
FixedEpochCount ==
    /\ (kind = "torch" /\ pc = "done")
          => /\ t = epochs
             /\ Count(log, "train") = epochs
             /\ Count(log, "test") = epochs
             /\ Count(log, "save") = epochs
             /\ Len(evalLog) = epochs
             /\ Len(cms) = epochs
             /\ \A k \in DOMAIN cms : cms[k] = evalLog[k].cm
             /\ plotCalls = <<cms>>
    /\ (kind = "torch" /\ pc # "done") => plotCalls = <<>>
    /\ (kind = "torch" /\ pc = "t_plot") => t = epochs

FixedEpochCountWitness ==
    /\ kind = "torch"
    /\ pc = "done"
    /\ epochs >= 2
    /\ cms[1] # cms[2]

\* C9 as stated: in every epoch the training set is re-constructed first and
\* then trained on, so the training pass of epoch k uses the set built in
\* epoch k, and then come evaluation, checkpoint and record.
ResampleBeforeTrain ==
    kind = "torch"
        => /\ \A k \in 1..Len(trainedOn) : trainedOn[k] = k
           /\ \A k \in 1..(t + 1) :
                 IsPrefix(EventsOf(log, k),
                          <<"resample", "train", "test", "save", "record">>)

\* C9 amended: in every epoch the order is train, re-construct the training
\* set, evaluate, persist, record; the training pass of epoch k uses the set
\* built in epoch k - 1 (by the constructor for k = 1), and the set built in
\* the last epoch is never trained on.
TrainBeforeResample ==
    kind = "torch"
        => /\ \A k \in 1..Len(trainedOn) : trainedOn[k] = k - 1
           /\ \A k \in 1..(t + 1) :
                 IsPrefix(EventsOf(log, k),
                          <<"train", "resample", "test", "save", "record">>)
           /\ (pc = "done" /\ epochs >= 1)
                 => /\ train_dataset.builtIn = epochs
                    /\ \A k \in DOMAIN trainedOn : trainedOn[k] # epochs

TrainBeforeResampleWitness ==
    /\ kind = "torch"
    /\ pc = "done"
    /\ epochs >= 2
    /\ trainedOn[2] = 1

\* C10: a failed training pass ends the run at once, with no retry: when the
\* pass of epoch k fails, epochs 1..k-1 are the only ones evaluated, saved
\* and recorded, plotCM is never called and no further step is taken; a
\* failed SklearnModel.train is followed by neither test() nor plotCM.
FailedTrainHalts ==
    /\ []((kind = "torch" /\ err = "TrainError")
          => /\ pc = "failed"
             /\ Count(log, "train") = t
             /\ Count(log, "test") = t
             /\ Len(evalLog) = t
             /\ Count(log, "save") = t
             /\ Count(log, "record") = t
             /\ Len(cms) = t
             /\ \A i \in DOMAIN log : log[i][2] <= t
             /\ plotCalls = <<>>)
    /\ []((kind = "sklearn" /\ err \in {"FitError", "ValueError"})
          => /\ pc = "failed"
             /\ evalLog = <<>>
             /\ Count(log, "test") = 0
             /\ Count(log, "save") = 0
             /\ plotCalls = <<>>)
    /\ [][pc # "failed"]_vars

FailedTrainHaltsWitness ==
    /\ kind = "torch"
    /\ err = "TrainError"
    /\ pc = "failed"
    /\ t >= 1
    /\ Len(cms) = t
====
